---- MODULE Spec2Model ----
(***************************************************************************)
(* Binary max-heap over a contiguous buffer (lasd::HeapVec) and the        *)
(* priority queue built on it (lasd::PQHeap), with Data = int.             *)
(*                                                                         *)
(* A buffer is a sequence: the C++ slot Elements[i] is Elements[i + 1]     *)
(* here, and Len(Elements) is the number of slots the last new[] gave (a   *)
(* null pointer has none).  The first size slots are live.                 *)
(***************************************************************************)
EXTENDS Integers, Sequences, FiniteSets

\* ------------------------------------------------------------------ bounds
MaxVal == 2
MaxSize == 4
MaxInput == 3
MaxHint == 5
MaxHeapLen == 6
MaxDrain == 6
MaxPairVal == 1
MaxPairSize == 2
MaxEqSize == 3
MaxGrow == 9
MaxCap == 9
MaxAllSize == 4
MaxSortLen == 5

\* ------------------------------------------------------- program constants
DefaultData == 0
ShrinkFloor == 4
ShrinkDivisor == 4
GrowFactor == 2

Values == 0..MaxVal
PairValues == 0..MaxPairVal
NoRet == <<>>

VARIABLES Elements, size, capacity,
          oElements, oSize, oCapacity,
          op, args, ret, exc, ub, drained, M, realloc, reallocs, before,
          sortI

this == <<Elements, size, capacity>>
other == <<oElements, oSize, oCapacity>>
obs == <<op, args, ret, exc>>
alloc == <<realloc, reallocs, before>>
ghost == <<drained, M, realloc, reallocs, before, sortI>>
vars == <<Elements, size, capacity, oElements, oSize, oCapacity,
          op, args, ret, exc, ub, drained, M, realloc, reallocs, before,
          sortI>>

\* --------------------------------------------------------------- exceptions
NoExc == [type |-> "none", what |-> ""]
EmptyCollection == [type |-> "length_error", what |-> "Priority queue is empty"]
NotFound == [type |-> "length_error", what |-> "Value not found"]
IndexOutOfRange == [type |-> "out_of_range", what |-> "Index out of range"]

\* ------------------------------------------------------------ buffer access
At(E, i) == E[i + 1]

Put(E, i, v) == [E EXCEPT ![i + 1] = v]

\* Mutant: the first slot takes the second's value and the second keeps it.
SwapOverwrites(E, i, j) == [E EXCEPT ![i + 1] = E[j + 1]]

Swap(E, i, j) == [E EXCEPT ![i + 1] = E[j + 1], ![j + 1] = E[i + 1]]

NewArray(n) == [k \in 1..n |-> DefaultData]

Count(E, sz, v) == Cardinality({k \in 1..sz : E[k] = v})

BagOf(E, sz) == [v \in Values |-> Count(E, sz, v)]

SeqsUpTo(S, n) == UNION {[1..k -> S] : k \in 0..n}

\* --------------------------------------------------------- index arithmetic
GetParent(index) == (index - 1) \div 2

GetLeftChild(index) == (2 * index) + 1

GetRightChild(index) == (2 * index) + 2

HasLeftChild(index, sz) == GetLeftChild(index) < sz

HasRightChild(index, sz) == GetRightChild(index) < sz

\* ------------------------------------------------------------- heap engine
IsHeap(E, sz) ==
  \A i \in 0..(sz - 1) :
    /\ HasLeftChild(i, sz) => ~(At(E, i) < At(E, GetLeftChild(i)))
    /\ HasRightChild(i, sz) => ~(At(E, i) < At(E, GetRightChild(i)))

\* Mutant: a single exchange with the parent instead of the loop.
HeapifyUpOnce(E, index) ==
  IF index > 0 /\ At(E, index) > At(E, GetParent(index))
  THEN Swap(E, index, GetParent(index))
  ELSE E

RECURSIVE HeapifyUp(_, _)
HeapifyUp(E, index) ==
  IF index > 0
  THEN LET parentIndex == GetParent(index)
       IN IF At(E, index) > At(E, parentIndex)
          THEN HeapifyUp(Swap(E, index, parentIndex), parentIndex)
          ELSE E
  ELSE E

\* Mutant: the right child is never looked at.
LargestChildLeftOnly(E, sz, index) == GetLeftChild(index)

\* Mutant: of two equal children the right one is taken.
LargestChildRightOnTies(E, sz, index) ==
  IF HasRightChild(index, sz)
     /\ At(E, GetRightChild(index)) >= At(E, GetLeftChild(index))
  THEN GetRightChild(index)
  ELSE GetLeftChild(index)

LargestChild(E, sz, index) ==
  IF HasRightChild(index, sz)
     /\ At(E, GetRightChild(index)) > At(E, GetLeftChild(index))
  THEN GetRightChild(index)
  ELSE GetLeftChild(index)

\* Mutant: a single exchange with the larger child instead of the loop.
HeapifyDownOnce(E, sz, index) ==
  IF HasLeftChild(index, sz)
     /\ At(E, index) < At(E, LargestChild(E, sz, index))
  THEN Swap(E, index, LargestChild(E, sz, index))
  ELSE E

RECURSIVE HeapifyDown(_, _, _)
HeapifyDown(E, sz, index) ==
  IF HasLeftChild(index, sz)
  THEN LET largestChild == LargestChild(E, sz, index)
       IN IF At(E, index) >= At(E, largestChild)
          THEN E
          ELSE HeapifyDown(Swap(E, index, largestChild), sz, largestChild)
  ELSE E

RECURSIVE HeapifyLoop(_, _, _)
HeapifyLoop(E, sz, i) ==
  IF i >= 0 THEN HeapifyLoop(HeapifyDown(E, sz, i), sz, i - 1) ELSE E

\* Mutant: the loop starts one index too low and skips the last parent.
HeapifySkipsLast(E, sz) ==
  IF sz > 1 THEN HeapifyLoop(E, sz, (sz \div 2) - 2) ELSE E

Heapify(E, sz) ==
  IF sz > 1 THEN HeapifyLoop(E, sz, (sz \div 2) - 1) ELSE E

SortLargest(E, heapSize, current) ==
  LET leftChild == GetLeftChild(current)
      rightChild == GetRightChild(current)
      l1 == IF leftChild < heapSize /\ At(E, leftChild) > At(E, current)
            THEN leftChild ELSE current
  IN IF rightChild < heapSize /\ At(E, rightChild) > At(E, l1)
     THEN rightChild ELSE l1

RECURSIVE SortSiftDown(_, _, _)
SortSiftDown(E, heapSize, current) ==
  LET largest == SortLargest(E, heapSize, current)
  IN IF largest # current
     THEN SortSiftDown(Swap(E, current, largest), heapSize, largest)
     ELSE E

\* Mutant: the root goes to its final slot and the window is not sifted.
SortIterNoSift(E, i) == Swap(E, 0, i)

SortIter(E, i) == SortSiftDown(Swap(E, 0, i), i, 0)

RECURSIVE SortLoop(_, _)
SortLoop(E, i) ==
  IF i > 0 THEN SortLoop(SortIter(E, i), i - 1) ELSE E

\* Mutant: the heap is built and the extraction loop never runs.
SortOnlyHeapifies(E, sz) ==
  IF sz > 1 THEN Heapify(E, sz) ELSE E

\* Mutant: the extraction loop runs on the buffer as it is, without Heapify().
SortNoHeapify(E, sz) ==
  IF sz > 1 THEN SortLoop(E, sz - 1) ELSE E

Sort(E, sz) ==
  IF sz > 1 THEN SortLoop(Heapify(E, sz), sz - 1) ELSE E

\* --------------------------------------------------------- capacity policy
\* Mutant: the buffer grows to the capacity asked for and no further.
GrowCapacityExact(newCapacity, minCapacity) ==
  IF newCapacity < minCapacity THEN minCapacity ELSE newCapacity

RECURSIVE GrowCapacity(_, _)
GrowCapacity(newCapacity, minCapacity) ==
  IF newCapacity < minCapacity
  THEN GrowCapacity(newCapacity * GrowFactor, minCapacity)
  ELSE newCapacity

\* Mutant: the new buffer is left as allocated, nothing is moved into it.
RelocateFresh(E, sz, newCapacity) == [k \in 1..newCapacity |-> DefaultData]

Relocate(E, sz, newCapacity) ==
  [k \in 1..newCapacity |-> IF k <= sz THEN E[k] ELSE DefaultData]

EnsureCapacity(E, sz, cap, minCapacity) ==
  IF cap < minCapacity
  THEN LET newCapacity == GrowCapacity(IF cap = 0 THEN 1 ELSE cap, minCapacity)
       IN [Elements |-> Relocate(E, sz, newCapacity), capacity |-> newCapacity,
           realloc |-> TRUE]
  ELSE [Elements |-> E, capacity |-> cap, realloc |-> FALSE]

\* Mutant: the buffer shrinks to the size, leaving no spare slot.
ShrinkCapacityTight(E, sz, cap) ==
  IF cap > ShrinkFloor /\ sz <= cap \div ShrinkDivisor
  THEN [Elements |-> Relocate(E, sz, sz), capacity |-> sz, realloc |-> TRUE]
  ELSE [Elements |-> E, capacity |-> cap, realloc |-> FALSE]

\* Mutant: the buffer is halved as soon as it is half empty.
ShrinkCapacityEager(E, sz, cap) ==
  IF cap > ShrinkFloor /\ sz <= cap \div 2
  THEN LET half == cap \div 2
           newCapacity == IF half < sz THEN sz ELSE half
       IN [Elements |-> Relocate(E, sz, newCapacity), capacity |-> newCapacity,
           realloc |-> TRUE]
  ELSE [Elements |-> E, capacity |-> cap, realloc |-> FALSE]

ShrinkCapacity(E, sz, cap) ==
  IF cap > ShrinkFloor /\ sz <= cap \div ShrinkDivisor
  THEN LET half == cap \div 2
           newCapacity == IF half < sz THEN sz ELSE half
       IN [Elements |-> Relocate(E, sz, newCapacity), capacity |-> newCapacity,
           realloc |-> TRUE]
  ELSE [Elements |-> E, capacity |-> cap, realloc |-> FALSE]

\* ------------------------------------------------------------ constructors
\* A constructor gives the new object and the call that made it.
PQHeapDefault ==
  [Elements |-> <<>>, size |-> 0, capacity |-> 0, op |-> "PQHeap()", args |-> <<>>]

\* Mutant: the argument reserves capacity and the queue starts empty.
PQHeapSizeReserves(newSize) ==
  [Elements |-> NewArray(newSize), size |-> 0, capacity |-> newSize,
   op |-> "PQHeap(ulong)", args |-> <<newSize>>]

PQHeapSize(newSize) ==
  [Elements |-> NewArray(newSize), size |-> newSize, capacity |-> newSize,
   op |-> "PQHeap(ulong)", args |-> <<newSize>>]

PQHeapContainer(container) ==
  [Elements |-> Heapify(container, Len(container)),
   size |-> Len(container), capacity |-> Len(container),
   op |-> "PQHeap(container)", args |-> <<container>>]

PQHeapMoveContainer(container) ==
  [Elements |-> Heapify(container, Len(container)),
   size |-> Len(container), capacity |-> Len(container),
   op |-> "PQHeap(container)", args |-> <<container>>]

Constructed(n, s) ==
  {PQHeapDefault} \cup {PQHeapSize(k) : k \in 0..n}
    \cup {PQHeapContainer(c) : c \in s} \cup {PQHeapMoveContainer(c) : c \in s}

Construct(c) ==
  /\ Elements = c.Elements /\ size = c.size /\ capacity = c.capacity
  /\ op = c.op /\ args = c.args /\ ret = NoRet /\ exc = NoExc /\ ub = FALSE

\* ------------------------------------------------- priority queue operations
\* Every operation is a whole call on the object <<Elements, size, capacity>>:
\* op names the call, args holds its arguments, ret what it returned and exc
\* what it threw.
Returns(name, a, r, e) == op' = name /\ args' = a /\ ret' = r /\ exc' = e

\* Mutant: the last live element is returned instead of the first.
TipBack ==
  /\ ~ub
  /\ IF size = 0
     THEN Returns("Tip", <<>>, NoRet, EmptyCollection)
     ELSE Returns("Tip", <<>>, <<At(Elements, size - 1)>>, NoExc)
  /\ UNCHANGED <<this, ub>>

Tip ==
  /\ ~ub
  /\ IF size = 0
     THEN Returns("Tip", <<>>, NoRet, EmptyCollection)
     ELSE Returns("Tip", <<>>, <<At(Elements, 0)>>, NoExc)
  /\ UNCHANGED <<this, ub>>

\* Mutant: the last element is never removed.
RemoveTipStateKeepsLast(E, sz, cap) ==
  IF sz = 1
  THEN [Elements |-> E, size |-> 1, capacity |-> cap, realloc |-> FALSE]
  ELSE LET moved == Put(E, 0, At(E, sz - 1))
           down == HeapifyDown(moved, sz - 1, 0)
           sh == ShrinkCapacity(down, sz - 1, cap)
       IN [Elements |-> sh.Elements, size |-> sz - 1, capacity |-> sh.capacity,
           realloc |-> sh.realloc]

\* The object RemoveTip() leaves when size > 0.
RemoveTipState(E, sz, cap) ==
  IF sz = 1
  THEN LET sh == ShrinkCapacity(E, 0, cap)
       IN [Elements |-> sh.Elements, size |-> 0, capacity |-> sh.capacity,
           realloc |-> sh.realloc]
  ELSE LET moved == Put(E, 0, At(E, sz - 1))
           down == HeapifyDown(moved, sz - 1, 0)
           sh == ShrinkCapacity(down, sz - 1, cap)
       IN [Elements |-> sh.Elements, size |-> sz - 1, capacity |-> sh.capacity,
           realloc |-> sh.realloc]

RemoveTip ==
  /\ ~ub
  /\ IF size = 0
     THEN Returns("RemoveTip", <<>>, NoRet, EmptyCollection) /\ UNCHANGED this
     ELSE LET r == RemoveTipState(Elements, size, capacity)
          IN /\ Elements' = r.Elements
             /\ size' = r.size
             /\ capacity' = r.capacity
             /\ Returns("RemoveTip", <<>>, NoRet, NoExc)
  /\ UNCHANGED ub

\* Mutant: the value to return is read after the last element has taken the
\* root's place.
TipNRemoveStateLate(E, sz, cap) ==
  IF sz = 1
  THEN LET sh == ShrinkCapacity(E, 0, cap)
       IN [Elements |-> sh.Elements, size |-> 0, capacity |-> sh.capacity,
           result |-> At(E, 0), realloc |-> sh.realloc]
  ELSE LET moved == Put(E, 0, At(E, sz - 1))
           down == HeapifyDown(moved, sz - 1, 0)
           sh == ShrinkCapacity(down, sz - 1, cap)
       IN [Elements |-> sh.Elements, size |-> sz - 1, capacity |-> sh.capacity,
           result |-> At(moved, 0), realloc |-> sh.realloc]

\* The object TipNRemove() leaves when size > 0, and the value it returns.
TipNRemoveState(E, sz, cap) ==
  LET result == At(E, 0)
  IN IF sz = 1
     THEN LET sh == ShrinkCapacity(E, 0, cap)
          IN [Elements |-> sh.Elements, size |-> 0, capacity |-> sh.capacity,
              result |-> result, realloc |-> sh.realloc]
     ELSE LET moved == Put(E, 0, At(E, sz - 1))
              down == HeapifyDown(moved, sz - 1, 0)
              sh == ShrinkCapacity(down, sz - 1, cap)
          IN [Elements |-> sh.Elements, size |-> sz - 1, capacity |-> sh.capacity,
              result |-> result, realloc |-> sh.realloc]

\* Mutant: no emptiness check, a default value is returned from an empty queue.
TipNRemoveUnchecked ==
  /\ ~ub
  /\ IF size = 0
     THEN Returns("TipNRemove", <<>>, <<DefaultData>>, NoExc) /\ UNCHANGED this
     ELSE LET r == TipNRemoveState(Elements, size, capacity)
          IN /\ Elements' = r.Elements
             /\ size' = r.size
             /\ capacity' = r.capacity
             /\ Returns("TipNRemove", <<>>, <<r.result>>, NoExc)
  /\ UNCHANGED ub

TipNRemove ==
  /\ ~ub
  /\ IF size = 0
     THEN Returns("TipNRemove", <<>>, NoRet, EmptyCollection) /\ UNCHANGED this
     ELSE LET r == TipNRemoveState(Elements, size, capacity)
          IN /\ Elements' = r.Elements
             /\ size' = r.size
             /\ capacity' = r.capacity
             /\ Returns("TipNRemove", <<>>, <<r.result>>, NoExc)
  /\ UNCHANGED ub

\* The write Elements[size] = value lands outside the buffer when the buffer
\* has no slot at index size: undefined behaviour, after which nothing is
\* known of the process (ub).
Insert(value) ==
  /\ ~ub
  /\ LET ec == EnsureCapacity(Elements, size, capacity, size + 1)
     IN IF size >= Len(ec.Elements)
        THEN ub' = TRUE /\ UNCHANGED this
        ELSE /\ Elements' = HeapifyUp(Put(ec.Elements, size, value), size)
             /\ size' = size + 1
             /\ capacity' = ec.capacity
             /\ UNCHANGED ub
  /\ Returns("Insert", <<value>>, NoRet, NoExc)

\* Mutant: a scan that finds nothing ends at index 0 instead of size.
FindValueWraps(E, sz, oldValue) ==
  LET hits == {i \in 0..(sz - 1) : At(E, i) = oldValue}
  IN IF hits = {} THEN 0 ELSE CHOOSE i \in hits : \A j \in hits : i <= j

\* Mutant: the scan keeps the last match instead of stopping at the first.
FindValueLast(E, sz, oldValue) ==
  LET hits == {i \in 0..(sz - 1) : At(E, i) = oldValue}
  IN IF hits = {} THEN sz ELSE CHOOSE i \in hits : \A j \in hits : i >= j

FindValue(E, sz, oldValue) ==
  LET hits == {i \in 0..(sz - 1) : At(E, i) = oldValue}
  IN IF hits = {} THEN sz ELSE CHOOSE i \in hits : \A j \in hits : i <= j

\* Mutant: a value that is not greater is sifted down, an equal one included.
ReorderEqualSinks(E, sz, idx, newValue, oldData) ==
  IF newValue > oldData THEN HeapifyUp(E, idx) ELSE HeapifyDown(E, sz, idx)

Reorder(E, sz, idx, newValue, oldData) ==
  IF newValue > oldData THEN HeapifyUp(E, idx)
  ELSE IF newValue < oldData THEN HeapifyDown(E, sz, idx)
  ELSE E

ChangeValue(oldValue, newValue) ==
  /\ ~ub
  /\ LET idx == FindValue(Elements, size, oldValue)
     IN IF idx = size
        THEN /\ Returns("ChangeValue", <<oldValue, newValue>>, NoRet, NotFound)
             /\ UNCHANGED Elements
        ELSE LET oldData == At(Elements, idx)
             IN /\ Elements' = Reorder(Put(Elements, idx, newValue), size, idx,
                                       newValue, oldData)
                /\ Returns("ChangeValue", <<oldValue, newValue>>, NoRet, NoExc)
  /\ UNCHANGED <<size, capacity, ub>>

ChangeValueMove(oldValue, newValue) ==
  /\ ~ub
  /\ LET idx == FindValue(Elements, size, oldValue)
     IN IF idx = size
        THEN /\ Returns("ChangeValue", <<oldValue, newValue>>, NoRet, NotFound)
             /\ UNCHANGED Elements
        ELSE LET oldData == At(Elements, idx)
                 written == Put(Elements, idx, newValue)
             IN /\ Elements' = Reorder(written, size, idx, At(written, idx), oldData)
                /\ Returns("ChangeValue", <<oldValue, newValue>>, NoRet, NoExc)
  /\ UNCHANGED <<size, capacity, ub>>

\* Mutant: the slot is written before the index is checked.
ChangeIndexWriteFirst(idx, newValue) ==
  /\ ~ub
  /\ IF idx >= size
     THEN /\ Returns("ChangeIndex", <<idx, newValue>>, NoRet, IndexOutOfRange)
          /\ Elements' = IF idx < Len(Elements)
                         THEN Put(Elements, idx, newValue) ELSE Elements
     ELSE LET oldData == At(Elements, idx)
          IN /\ Elements' = Reorder(Put(Elements, idx, newValue), size, idx,
                                    newValue, oldData)
             /\ Returns("ChangeIndex", <<idx, newValue>>, NoRet, NoExc)
  /\ UNCHANGED <<size, capacity, ub>>

ChangeIndex(idx, newValue) ==
  /\ ~ub
  /\ IF idx >= size
     THEN /\ Returns("ChangeIndex", <<idx, newValue>>, NoRet, IndexOutOfRange)
          /\ UNCHANGED Elements
     ELSE LET oldData == At(Elements, idx)
          IN /\ Elements' = Reorder(Put(Elements, idx, newValue), size, idx,
                                    newValue, oldData)
             /\ Returns("ChangeIndex", <<idx, newValue>>, NoRet, NoExc)
  /\ UNCHANGED <<size, capacity, ub>>

ChangeIndexMove(idx, newValue) ==
  /\ ~ub
  /\ IF idx >= size
     THEN /\ Returns("ChangeIndex", <<idx, newValue>>, NoRet, IndexOutOfRange)
          /\ UNCHANGED Elements
     ELSE LET oldData == At(Elements, idx)
              written == Put(Elements, idx, newValue)
          IN /\ Elements' = Reorder(written, size, idx, At(written, idx), oldData)
             /\ Returns("ChangeIndex", <<idx, newValue>>, NoRet, NoExc)
  /\ UNCHANGED <<size, capacity, ub>>

HeapifyCall ==
  /\ ~ub
  /\ Elements' = Heapify(Elements, size)
  /\ Returns("Heapify", <<>>, NoRet, NoExc)
  /\ UNCHANGED <<size, capacity, ub>>

SortCall ==
  /\ ~ub
  /\ Elements' = Sort(Elements, size)
  /\ Returns("Sort", <<>>, NoRet, NoExc)
  /\ UNCHANGED <<size, capacity, ub>>

\* --------------------------------------------------------------------------
\* Spec: one priority queue, built by any constructor, under every operation
\* of the queue interface and Heapify (no Sort).
\* --------------------------------------------------------------------------
NoOther == oElements = <<>> /\ oSize = 0 /\ oCapacity = 0

NoAlloc ==
  realloc = FALSE /\ reallocs = 0 /\ before = [op |-> "", realloc |-> FALSE]

NoGhost == drained = <<>> /\ M = [v \in Values |-> 0] /\ NoAlloc /\ sortI = 0

Init ==
  /\ \E c \in Constructed(MaxHint, SeqsUpTo(Values, MaxInput)) : Construct(c)
  /\ NoOther /\ NoGhost

Alone == UNCHANGED <<other, ghost>>

PQTip == Tip /\ Alone

PQRemoveTip == RemoveTip /\ Alone

PQTipNRemove == TipNRemove /\ Alone

PQInsert == \E v \in Values : size < MaxSize /\ Insert(v) /\ Alone

PQChangeValue == \E o, n \in Values : ChangeValue(o, n) /\ Alone

PQChangeValueMove == \E o, n \in Values : ChangeValueMove(o, n) /\ Alone

PQChangeIndex == \E i \in 0..(size + 1), n \in Values : ChangeIndex(i, n) /\ Alone

PQChangeIndexMove ==
  \E i \in 0..(size + 1), n \in Values : ChangeIndexMove(i, n) /\ Alone

PQHeapify == HeapifyCall /\ Alone

Next ==
  \/ PQTip
  \/ PQRemoveTip
  \/ PQTipNRemove
  \/ PQInsert
  \/ PQChangeValue
  \/ PQChangeValueMove
  \/ PQChangeIndex
  \/ PQChangeIndexMove
  \/ PQHeapify

Spec == Init /\ [][Next]_vars

\* --------------------------------------------------------------------------
\* SpecHeap: the object seen as a HeapVec, whose slots are written through
\* operator[], under Heapify and Sort: the buffer holds any contents.
\* --------------------------------------------------------------------------
\* heap[index] = value through Vector::operator[].
Write(index, value) ==
  /\ ~ub
  /\ IF index >= size
     THEN /\ Returns("operator[]", <<index, value>>, NoRet,
                     [type |-> "out_of_range", what |-> "Access at index"])
          /\ UNCHANGED Elements
     ELSE /\ Elements' = Put(Elements, index, value)
          /\ Returns("operator[]", <<index, value>>, NoRet, NoExc)
  /\ UNCHANGED <<size, capacity, ub>>

HeapInit ==
  /\ \E c \in Constructed(MaxHeapLen, SeqsUpTo(Values, MaxHeapLen)) : Construct(c)
  /\ NoOther /\ NoGhost

HeapWrite == \E i \in 0..size, v \in Values : Write(i, v) /\ Alone

HeapHeapify == HeapifyCall /\ Alone

HeapSort == SortCall /\ Alone

HeapNext ==
  \/ HeapWrite
  \/ HeapHeapify
  \/ HeapSort

SpecHeap == HeapInit /\ [][HeapNext]_vars

\* --------------------------------------------------------------------------
\* SpecDrain: a queue is built by a constructor and Inserts, then emptied by
\* TipNRemove alone.  M is the multiset put into the queue, drained the
\* values the TipNRemove calls returned, in order.
\* --------------------------------------------------------------------------
Input(c) ==
  IF c.op = "PQHeap(container)" THEN c.args[1] ELSE NewArray(c.size)

DrainInit ==
  /\ \E c \in Constructed(MaxHint, SeqsUpTo(Values, MaxInput)) :
       /\ Construct(c)
       /\ M = BagOf(Input(c), Len(Input(c)))
  /\ drained = <<>>
  /\ NoOther /\ NoAlloc /\ sortI = 0

DrainInsert ==
  \E v \in Values :
    /\ drained = <<>>
    /\ size < MaxDrain
    /\ Insert(v)
    /\ M' = [M EXCEPT ![v] = @ + 1]
    /\ UNCHANGED <<drained, other, alloc, sortI>>

DrainTipNRemove ==
  /\ TipNRemove
  /\ drained' = IF exc' = NoExc THEN Append(drained, ret'[1]) ELSE drained
  /\ UNCHANGED <<M, other, alloc, sortI>>

DrainNext ==
  \/ DrainInsert
  \/ DrainTipNRemove

SpecDrain == DrainInit /\ [][DrainNext]_vars

\* --------------------------------------------------------------------------
\* SpecPair: two queues, this and other, with copy and move construction and
\* assignment between them; the queue operations and Sort act on this.
\* --------------------------------------------------------------------------
\* Vector(const Vector&) and Vector::operator=(const Vector&) allocate
\* vector.size slots and copy the live elements.
VectorCopy(E, sz) == [k \in 1..sz |-> E[k]]

\* PQHeap other(this);
CopyConstruct ==
  /\ ~ub
  /\ oElements' = VectorCopy(Elements, size)
  /\ oSize' = size
  /\ oCapacity' = capacity
  /\ Returns("PQHeap(const PQHeap&)", <<>>, NoRet, NoExc)
  /\ UNCHANGED <<this, ub>>

\* PQHeap other(std::move(this)); the new object starts with a null buffer
\* and size 0, which the moved-from object takes in the exchange.
MoveConstruct ==
  /\ ~ub
  /\ oElements' = Elements /\ Elements' = <<>>
  /\ oSize' = size /\ size' = 0
  /\ oCapacity' = capacity /\ capacity' = 0
  /\ Returns("PQHeap(PQHeap&&)", <<>>, NoRet, NoExc)
  /\ UNCHANGED ub

\* this = other;
CopyAssign ==
  /\ ~ub
  /\ Elements' = VectorCopy(oElements, oSize)
  /\ size' = oSize
  /\ capacity' = oCapacity
  /\ Returns("operator=(const PQHeap&)", <<>>, NoRet, NoExc)
  /\ UNCHANGED <<other, ub>>

\* this = std::move(other);
MoveAssign ==
  /\ ~ub
  /\ Elements' = oElements /\ oElements' = Elements
  /\ size' = oSize /\ oSize' = size
  /\ capacity' = oCapacity /\ oCapacity' = 0
  /\ Returns("operator=(PQHeap&&)", <<>>, NoRet, NoExc)
  /\ UNCHANGED ub

PairBuilt == Constructed(MaxPairSize, SeqsUpTo(PairValues, MaxPairSize))

PairInit ==
  /\ \E c \in PairBuilt : Construct(c)
  /\ \E c \in PairBuilt :
       oElements = c.Elements /\ oSize = c.size /\ oCapacity = c.capacity
  /\ NoGhost

Single == UNCHANGED <<other, ghost>>

PairTip == Tip /\ Single

PairRemoveTip == RemoveTip /\ Single

PairTipNRemove == TipNRemove /\ Single

\* Where a write one slot past the buffer of this can land: in nothing the
\* program reads again, or in the slot next to it on the heap, which may be
\* the first slot of the other object's buffer.
Overflow(E, value) == {E} \cup (IF Len(E) > 0 THEN {Put(E, 0, value)} ELSE {})

PairInsert ==
  \E v \in PairValues :
    /\ size < MaxPairSize
    /\ Insert(v)
    /\ IF ub'
       THEN oElements' \in Overflow(oElements, v) /\ UNCHANGED <<oSize, oCapacity>>
       ELSE UNCHANGED other
    /\ UNCHANGED ghost

PairChangeValue == \E o, n \in PairValues : ChangeValue(o, n) /\ Single

PairChangeIndex ==
  \E i \in 0..(size + 1), n \in PairValues : ChangeIndex(i, n) /\ Single

PairHeapify == HeapifyCall /\ Single

PairSort == SortCall /\ Single

PairCopyConstruct == CopyConstruct /\ UNCHANGED ghost

PairMoveConstruct == MoveConstruct /\ UNCHANGED ghost

PairCopyAssign == CopyAssign /\ UNCHANGED ghost

PairMoveAssign == MoveAssign /\ UNCHANGED ghost

PairNext ==
  \/ PairTip
  \/ PairRemoveTip
  \/ PairTipNRemove
  \/ PairInsert
  \/ PairChangeValue
  \/ PairChangeIndex
  \/ PairHeapify
  \/ PairSort
  \/ PairCopyConstruct
  \/ PairMoveConstruct
  \/ PairCopyAssign
  \/ PairMoveAssign

SpecPair == PairInit /\ [][PairNext]_vars

\* --------------------------------------------------------------------------
\* SpecEq: two queues compared with operator== and operator!=; this grows,
\* shrinks and is sorted, so that equal contents meet different capacities
\* and equal multisets meet different layouts.
\* --------------------------------------------------------------------------
\* Mutant: the comparison looks at the elements held, not at where they are.
VectorEqualsAnyOrder(E, sz, F, fsz) == BagOf(E, sz) = BagOf(F, fsz)

RECURSIVE EqualFrom(_, _, _, _)
EqualFrom(E, F, sz, i) ==
  IF i < sz
  THEN IF At(E, i) # At(F, i) THEN FALSE ELSE EqualFrom(E, F, sz, i + 1)
  ELSE TRUE

VectorEquals(E, sz, F, fsz) ==
  IF sz # fsz THEN FALSE ELSE EqualFrom(E, F, sz, 0)

\* this == other
Equals ==
  /\ ~ub
  /\ Returns("operator==", <<>>,
             <<VectorEquals(Elements, size, oElements, oSize)>>, NoExc)
  /\ UNCHANGED <<this, other, ub>>

\* this != other
NotEquals ==
  /\ ~ub
  /\ Returns("operator!=", <<>>,
             <<~VectorEquals(Elements, size, oElements, oSize)>>, NoExc)
  /\ UNCHANGED <<this, other, ub>>

EqBuilt == Constructed(MaxEqSize, SeqsUpTo(PairValues, MaxEqSize))

EqInit ==
  /\ \E c \in EqBuilt : Construct(c)
  /\ \E c \in EqBuilt :
       oElements = c.Elements /\ oSize = c.size /\ oCapacity = c.capacity
  /\ NoGhost

EqInsert == \E v \in PairValues : size < MaxEqSize /\ Insert(v) /\ Single

EqRemoveTip == RemoveTip /\ Single

EqSort == SortCall /\ Single

EqEquals == Equals /\ UNCHANGED ghost

EqNotEquals == NotEquals /\ UNCHANGED ghost

EqNext ==
  \/ EqInsert
  \/ EqRemoveTip
  \/ EqSort
  \/ EqEquals
  \/ EqNotEquals

SpecEq == EqInit /\ [][EqNext]_vars

\* --------------------------------------------------------------------------
\* Allocation bookkeeping: realloc tells whether the last call allocated a
\* new buffer (the new Data[newCapacity] of EnsureCapacity or ShrinkCapacity),
\* before holds the call made before it, reallocs counts the allocations.
\* --------------------------------------------------------------------------
InsertReallocates == EnsureCapacity(Elements, size, capacity, size + 1).realloc

RemoveTipReallocates ==
  size > 0 /\ RemoveTipState(Elements, size, capacity).realloc

TipNRemoveReallocates ==
  size > 0 /\ TipNRemoveState(Elements, size, capacity).realloc

Track(r) == realloc' = r /\ before' = [op |-> op, realloc |-> realloc]

\* --------------------------------------------------------------------------
\* SpecGrow: a default-constructed queue under Insert alone.
\* --------------------------------------------------------------------------
GrowInit == Construct(PQHeapDefault) /\ NoOther /\ NoGhost

GrowInsert ==
  \E v \in Values :
    /\ size < MaxGrow
    /\ Insert(v)
    /\ Track(InsertReallocates)
    /\ reallocs' = reallocs + (IF InsertReallocates THEN 1 ELSE 0)
    /\ UNCHANGED <<other, drained, M, sortI>>

GrowNext == GrowInsert

SpecGrow == GrowInit /\ [][GrowNext]_vars

\* --------------------------------------------------------------------------
\* SpecCap: a queue built by any constructor under Insert, RemoveTip and
\* TipNRemove, the calls that change the capacity.
\* --------------------------------------------------------------------------
CapInit ==
  /\ \E c \in Constructed(MaxCap, SeqsUpTo(PairValues, MaxInput)) : Construct(c)
  /\ NoOther /\ NoGhost

CapInsert ==
  \E v \in PairValues :
    /\ size < MaxCap
    /\ Insert(v)
    /\ Track(InsertReallocates)
    /\ UNCHANGED <<other, drained, M, reallocs, sortI>>

CapRemoveTip ==
  /\ RemoveTip
  /\ Track(RemoveTipReallocates)
  /\ UNCHANGED <<other, drained, M, reallocs, sortI>>

CapTipNRemove ==
  /\ TipNRemove
  /\ Track(TipNRemoveReallocates)
  /\ UNCHANGED <<other, drained, M, reallocs, sortI>>

CapNext ==
  \/ CapInsert
  \/ CapRemoveTip
  \/ CapTipNRemove

SpecCap == CapInit /\ [][CapNext]_vars

\* --------------------------------------------------------------------------
\* SpecAll: one queue under every operation it offers, Sort included, so
\* that the calls also meet buffers that are not heaps.
\* --------------------------------------------------------------------------
AllInit ==
  /\ \E c \in Constructed(MaxAllSize, SeqsUpTo(Values, MaxAllSize)) :
       Construct(c)
  /\ NoOther /\ NoGhost

AllTip == Tip /\ Alone

AllRemoveTip == RemoveTip /\ Alone

AllTipNRemove == TipNRemove /\ Alone

AllInsert == \E v \in Values : size < MaxAllSize /\ Insert(v) /\ Alone

AllChangeValue == \E o, n \in Values : ChangeValue(o, n) /\ Alone

AllChangeIndex == \E i \in 0..size, n \in Values : ChangeIndex(i, n) /\ Alone

AllChangeIndexMove ==
  \E i \in 0..size, n \in Values : ChangeIndexMove(i, n) /\ Alone

AllHeapify == HeapifyCall /\ Alone

AllSort == SortCall /\ Alone

AllNext ==
  \/ AllTip
  \/ AllRemoveTip
  \/ AllTipNRemove
  \/ AllInsert
  \/ AllChangeValue
  \/ AllChangeIndex
  \/ AllChangeIndexMove
  \/ AllHeapify
  \/ AllSort

SpecAll == AllInit /\ [][AllNext]_vars

\* --------------------------------------------------------------------------
\* SpecClear: one queue under Clear(), which the queue inherits from the
\* resizable container, and the calls that show what Clear() left.
\* --------------------------------------------------------------------------
\* Vector::Resize(newSize): nothing for the same size, a null buffer for 0,
\* otherwise a new buffer of newSize slots with the old elements that fit.
Resize(E, sz, newSize) ==
  IF newSize = sz THEN [Elements |-> E, size |-> sz]
  ELSE IF newSize = 0 THEN [Elements |-> <<>>, size |-> 0]
  ELSE LET minSize == IF sz < newSize THEN sz ELSE newSize
       IN [Elements |-> [k \in 1..newSize |->
                          IF k <= minSize THEN E[k] ELSE DefaultData],
           size |-> newSize]

\* Clear() is Resize(0); capacity is a member of PQHeap that Vector does not
\* know of.
Clear ==
  /\ ~ub
  /\ LET r == Resize(Elements, size, 0)
     IN Elements' = r.Elements /\ size' = r.size
  /\ Returns("Clear", <<>>, NoRet, NoExc)
  /\ UNCHANGED <<capacity, ub>>

ClearInit ==
  /\ \E c \in Constructed(MaxHint, SeqsUpTo(Values, MaxInput)) : Construct(c)
  /\ NoOther /\ NoGhost

ClearClear == Clear /\ Alone

ClearInsert == \E v \in Values : size < MaxSize /\ Insert(v) /\ Alone

ClearRemoveTip == RemoveTip /\ Alone

ClearTip == Tip /\ Alone

ClearNext ==
  \/ ClearClear
  \/ ClearInsert
  \/ ClearRemoveTip
  \/ ClearTip

SpecClear == ClearInit /\ [][ClearNext]_vars

\* --------------------------------------------------------------------------
\* SpecSort: a heap under operator[] writes, Heapify and Sort, with Sort
\* taken one iteration of its extraction loop at a time.  sortI is the next
\* value of the loop variable i of a Sort() in progress, 0 when none is.
\* --------------------------------------------------------------------------
SortInit ==
  /\ \E c \in Constructed(MaxSortLen, SeqsUpTo(Values, MaxSortLen)) : Construct(c)
  /\ NoOther /\ NoGhost

SortWrite == sortI = 0 /\ \E i \in 0..size, v \in Values : Write(i, v) /\ Alone

SortHeapify == sortI = 0 /\ HeapifyCall /\ Alone

\* Entry of Sort(): the size test, Heapify() and the loop initialisation.
SortBegin ==
  /\ ~ub /\ sortI = 0
  /\ IF size > 1
     THEN Elements' = Heapify(Elements, size) /\ sortI' = size - 1
     ELSE UNCHANGED <<Elements, sortI>>
  /\ Returns("Sort", <<>>, NoRet, NoExc)
  /\ UNCHANGED <<size, capacity, ub, other, drained, M, alloc>>

\* One iteration of the loop for (i = size - 1; i > 0; --i).
SortStep ==
  /\ sortI > 0
  /\ Elements' = SortIter(Elements, sortI)
  /\ sortI' = sortI - 1
  /\ UNCHANGED <<size, capacity, ub, obs, other, drained, M, alloc>>

SortNext ==
  \/ SortWrite
  \/ SortHeapify
  \/ SortBegin
  \/ SortStep

SpecSort == SortInit /\ [][SortNext]_vars

\* ----------------------------------------------------- claims checked on Spec
LiveIndex == 0..(size - 1)

IsMaximum(v, E, sz) == \A i \in 0..(sz - 1) : v >= At(E, i)

\* Replacing one occurrence of old by new in a bag of values.
Replaced(bag, old, new) == [[bag EXCEPT ![old] = @ - 1] EXCEPT ![new] = @ + 1]

\* C1: after every call of Insert, RemoveTip, TipNRemove, either Change and
\* Heapify on a queue built by any constructor, failed calls included, every
\* live element is >= both of its live children (IsHeap() is true).
C1_HeapInvariant ==
  \A i \in LiveIndex :
    /\ 2 * i + 1 < size => Elements[i + 1] >= Elements[2 * i + 2]
    /\ 2 * i + 2 < size => Elements[i + 1] >= Elements[2 * i + 3]

C1_Witness ==
  /\ op \in {"RemoveTip", "ChangeValue", "ChangeIndex", "Insert"}
  /\ exc = NoExc
  /\ size >= 4
  /\ Elements[1] > Elements[2]
  /\ Elements[2] > Elements[4]

\* C3: on a non-empty queue Tip() returns element[0], which is >= every live
\* element, and changes neither size nor capacity nor the buffer.
C3_TipIsMaximum ==
  [][(op' = "Tip" /\ size > 0)
       => /\ exc' = NoExc
          /\ ret' = <<Elements[1]>>
          /\ IsMaximum(ret'[1], Elements, size)
          /\ UNCHANGED <<Elements, size, capacity>>]_vars

C3_Witness ==
  /\ op = "Tip" /\ exc = NoExc
  /\ size >= 3
  /\ ret = <<MaxVal>>
  /\ \E i \in LiveIndex : Elements[i + 1] < MaxVal

\* C5: on an empty queue Tip(), RemoveTip() and TipNRemove() each throw
\* EmptyCollection and leave size, capacity and the buffer as they were.
C5_EmptyFails ==
  [][(size = 0 /\ op' \in {"Tip", "RemoveTip", "TipNRemove"})
       => /\ exc' = EmptyCollection
          /\ ret' = NoRet
          /\ UNCHANGED <<Elements, size, capacity>>]_vars

C5_Witness ==
  /\ op = "TipNRemove" /\ exc = EmptyCollection
  /\ size = 0 /\ capacity > 0

\* C6: Change(oldValue, newValue) when no live element equals oldValue throws
\* NotFound and leaves size, capacity and every buffer slot as they were (so
\* element[0], what Tip() returns, is the same).
C6_AbsentValueFails ==
  [][(op' = "ChangeValue" /\ \A i \in LiveIndex : Elements[i + 1] # args'[1])
       => /\ exc' = NotFound
          /\ UNCHANGED <<Elements, size, capacity>>]_vars

C6_Witness ==
  /\ op = "ChangeValue" /\ exc = NotFound
  /\ size >= 2
  /\ args[2] > Elements[1]

\* C7: Change(index, newValue) with index >= size throws IndexOutOfRange and
\* leaves size, capacity and every buffer slot as they were.
C7_BadIndexFails ==
  [][(op' = "ChangeIndex" /\ args'[1] >= size)
       => /\ exc' = IndexOutOfRange
          /\ UNCHANGED <<Elements, size, capacity>>]_vars

C7_Witness ==
  /\ op = "ChangeIndex" /\ exc = IndexOutOfRange
  /\ size >= 1
  /\ args[1] = size
  /\ capacity > size
  /\ args[2] # Elements[size + 1]

\* C10: Change(index, v) with index < size keeps size and replaces, in the
\* multiset of live elements, the element that was at index by v; when v is
\* greater than every element stored before, v is at the tip afterwards.
C10_ChangeIndexReplaces ==
  [][(op' = "ChangeIndex" /\ args'[1] < size)
       => /\ exc' = NoExc
          /\ size' = size
          /\ BagOf(Elements', size')
               = Replaced(BagOf(Elements, size), Elements[args'[1] + 1], args'[2])
          /\ (\A i \in LiveIndex : args'[2] > Elements[i + 1])
               => Elements'[1] = args'[2]]_vars

C10_Witness ==
  /\ op = "ChangeIndex" /\ exc = NoExc
  /\ size >= 4
  /\ args[1] = 3
  /\ args[2] = MaxVal
  /\ Elements[1] = MaxVal
  /\ \A i \in 1..(size - 1) : Elements[i + 1] < MaxVal

\* C14: from a non-empty queue TipNRemove() returns what Tip() would have
\* returned before the call, element[0], and leaves the size, the capacity
\* and the buffer RemoveTip() would have left from the same state.
C14_TipNRemoveIsRemoveTip ==
  [][(op' = "TipNRemove" /\ size > 0)
       => LET r == RemoveTipState(Elements, size, capacity)
          IN /\ exc' = NoExc
             /\ ret' = <<Elements[1]>>
             /\ Elements' = r.Elements
             /\ size' = r.size
             /\ capacity' = r.capacity]_vars

C14_Witness ==
  /\ op = "TipNRemove" /\ exc = NoExc
  /\ size >= 3
  /\ ret[1] > Elements[1]
  /\ Elements[1] > Elements[size]

C24_ChangeFirstMatch ==
  [][(op' = "ChangeValue" /\ \E i \in LiveIndex : Elements[i + 1] = args'[1])
       => LET oldValue == args'[1]
              newValue == args'[2]
              first == CHOOSE i \in LiveIndex :
                         /\ Elements[i + 1] = oldValue
                         /\ \A j \in 0..(i - 1) : Elements[j + 1] # oldValue
              written == [Elements EXCEPT ![first + 1] = newValue]
          IN /\ exc' = NoExc
             /\ size' = size /\ capacity' = capacity
             /\ newValue > oldValue => Elements' = HeapifyUp(written, first)
             /\ newValue < oldValue => Elements' = HeapifyDown(written, size, first)
             /\ newValue = oldValue => Elements' = written]_vars

\* The later of two equal elements is still there after the earlier one was
\* changed.
C24_Witness ==
  /\ op = "ChangeValue" /\ exc = NoExc
  /\ size >= 3
  /\ args[1] # args[2]
  /\ Elements[2] = args[2]
  /\ Elements[3] = args[1]

\* C30: the three kinds of failure are told apart by the exception thrown:
\* what a value Change throws for an absent value is of another type than
\* what Tip, RemoveTip and TipNRemove throw on an empty queue, and both are
\* of another type than what an index Change throws for a bad index.
C30_FailureKindsDiffer ==
  /\ (op = "ChangeValue" /\ exc # NoExc)
       => exc.type \notin {EmptyCollection.type, IndexOutOfRange.type}
  /\ (op \in {"Tip", "RemoveTip", "TipNRemove"} /\ exc # NoExc)
       => exc.type \notin {NotFound.type, IndexOutOfRange.type}
  /\ (op = "ChangeIndex" /\ exc # NoExc)
       => exc.type \notin {EmptyCollection.type, NotFound.type}

\* ------------------------------------------------- claims checked on SpecHeap
IsSorted(E, sz) == \A i \in 1..(sz - 1) : E[i] <= E[i + 1]

\* C8: after Sort() on a buffer with any contents the first size elements
\* are in non-decreasing order and are a permutation of the elements held
\* before the call; size is unchanged.
C8_SortSorts ==
  [][op' = "Sort"
       => /\ size' = size
          /\ IsSorted(Elements', size')
          /\ BagOf(Elements', size') = BagOf(Elements, size)]_vars

C8_Witness ==
  /\ op = "Sort"
  /\ size >= MaxHeapLen
  /\ Elements[1] < Elements[2]
  /\ Elements[2] = Elements[3]
  /\ Elements[3] < Elements[size]

\* C9: a heap or queue constructed from a sequence, and a buffer with any
\* contents after Heapify(), satisfies IsHeap() and has the size and the
\* multiset of elements of the input.
C9_HeapifyBuilds ==
  /\ op = "PQHeap(container)"
       => /\ IsHeap(Elements, size)
          /\ size = Len(args[1])
          /\ BagOf(Elements, size) = BagOf(args[1], Len(args[1]))
  /\ [][op' = "Heapify"
          => /\ IsHeap(Elements', size')
             /\ size' = size
             /\ BagOf(Elements', size') = BagOf(Elements, size)]_vars

C9_Witness ==
  /\ op = "Heapify"
  /\ size >= MaxHeapLen
  /\ Elements[1] > Elements[2]
  /\ Elements[2] > Elements[4]
  /\ Elements[3] > Elements[2]

AllEqual(E, sz) == \A i, j \in 0..(sz - 1) : At(E, i) = At(E, j)

BagSize(bag) == LET RECURSIVE Sum(_)
                    Sum(v) == IF v < 0 THEN 0 ELSE bag[v] + Sum(v - 1)
                IN Sum(MaxVal)

\* C2: TipNRemove() repeated until the queue is empty returns exactly the
\* elements of the multiset M the queue held, in non-increasing order, and
\* the queue is empty after |M| calls, no sooner and no later.
C2_DrainOrder ==
  /\ size + Len(drained) = BagSize(M)
  /\ \A i \in 1..(Len(drained) - 1) : drained[i] >= drained[i + 1]
  /\ size = 0 => BagOf(drained, Len(drained)) = M

C2_Witness ==
  /\ size = 0
  /\ op = "TipNRemove" /\ exc = NoExc
  /\ Len(drained) >= MaxDrain
  /\ drained[1] > drained[2]
  /\ drained[2] = drained[3]
  /\ drained[3] > drained[Len(drained)]

\* ------------------------------------------------- claims checked on SpecPair
\* C4: capacity >= size holds for every queue object after every operation:
\* constructors, copy and move construction and assignment (for the target
\* and for the moved-from source), Insert, RemoveTip, TipNRemove, Change,
\* Heapify and Sort.
C4_CapacityCoversSize ==
  /\ capacity >= size
  /\ oCapacity >= oSize

SameLive(E, F, sz) == \A i \in 0..(sz - 1) : At(E, i) = At(F, i)

\* C11: a copy-constructed or copy-assigned queue has the size and, index by
\* index, the elements of its source, and an Insert, RemoveTip, TipNRemove or
\* Change on one of the two leaves the size and the elements of the other as
\* they were.
C11_CopyIndependent ==
  [][/\ op' = "PQHeap(const PQHeap&)"
          => /\ oSize' = size /\ SameLive(oElements', Elements, size)
             /\ UNCHANGED <<Elements, size>>
     /\ op' = "operator=(const PQHeap&)"
          => /\ size' = oSize /\ SameLive(Elements', oElements, oSize)
             /\ UNCHANGED <<oElements, oSize>>
     /\ (/\ op \in {"PQHeap(const PQHeap&)", "operator=(const PQHeap&)"}
         /\ op' \in {"Insert", "RemoveTip", "TipNRemove", "ChangeValue",
                     "ChangeIndex"})
          => oSize' = oSize /\ SameLive(oElements', oElements, oSize)]_vars

\* C12: after move construction from a source, or move assignment of a
\* source into a target with any contents, the source has size 0 and
\* capacity 0 and the destination holds the source's former elements at the
\* same indices.
C12_MoveEmptiesSource ==
  [][/\ op' = "PQHeap(PQHeap&&)"
          => /\ size' = 0 /\ capacity' = 0
             /\ oSize' = size /\ SameLive(oElements', Elements, size)
     /\ op' = "operator=(PQHeap&&)"
          => /\ oSize' = 0 /\ oCapacity' = 0
             /\ size' = oSize /\ SameLive(Elements', oElements, oSize)]_vars

\* --------------------------------------------------- claims checked on SpecEq
\* C13: operator== returns true exactly when the two objects have the same
\* size and equal elements at every index below it, whatever their
\* capacities (so the same multiset laid out differently compares unequal),
\* and operator!= returns the negation.
C13_EqualityIsPositional ==
  [][/\ op' = "operator=="
          => ret' = <<size = oSize /\ SameLive(Elements, oElements, size)>>
     /\ op' = "operator!="
          => ret' = <<~(size = oSize /\ SameLive(Elements, oElements, size))>>]_vars

C13_Witness ==
  /\ op = "operator==" /\ ret = <<TRUE>>
  /\ size >= MaxEqSize
  /\ capacity # oCapacity
  /\ Elements[1] > Elements[size]

\* ------------------------------------------------- claims checked on SpecGrow
RECURSIVE Pow2(_)
Pow2(j) == IF j = 0 THEN 1 ELSE 2 * Pow2(j - 1)

LeastPow2AtLeast(k) ==
  CHOOSE p \in {Pow2(j) : j \in 0..k} :
    p >= k /\ \A j \in 0..k : Pow2(j) >= k => p <= Pow2(j)

CeilLog2(n) == CHOOSE j \in 0..n : Pow2(j) >= n /\ (j = 0 \/ Pow2(j - 1) < n)

\* C15: after k >= 1 Inserts into a default-constructed queue the capacity is
\* the least power of two >= k; insert number k allocates a new buffer
\* exactly when k = 1 or k = 2^j + 1, and the k inserts made 1 + ceil(log2 k)
\* allocations in all.
C15_CapacityIsPowerOfTwo ==
  size >= 1
    => /\ capacity = LeastPow2AtLeast(size)
       /\ realloc <=> (size = 1 \/ \E j \in 0..size : size = Pow2(j) + 1)
       /\ reallocs = 1 + CeilLog2(size)

C15_Witness ==
  /\ op = "Insert"
  /\ size = 9 /\ capacity = 16
  /\ realloc /\ reallocs = 5

\* -------------------------------------------------- claims checked on SpecCap
Removal == {"RemoveTip", "TipNRemove"}

\* C16: an Insert made right after a RemoveTip or TipNRemove that shrank the
\* buffer allocates nothing, and a RemoveTip or TipNRemove made right after
\* an Insert that grew the buffer allocates nothing.
C16_NoThrashing ==
  /\ (before.op \in Removal /\ before.realloc /\ op = "Insert") => ~realloc
  /\ (before.op = "Insert" /\ before.realloc /\ op \in Removal) => ~realloc

C16_Witness ==
  /\ before.op \in Removal /\ before.realloc
  /\ op = "Insert" /\ ~realloc
  /\ size = 5 /\ capacity = 8

\* C25: a RemoveTip or TipNRemove on a non-empty queue changes the capacity
\* exactly when, with size already decremented, capacity > 4 and
\* size <= capacity / 4; the new capacity is then max(capacity / 2, size), a
\* new buffer of that many slots is allocated, and the live elements are the
\* ones the sift-down left, in the same order.
C25_ShrinkRule ==
  [][(op' \in Removal /\ size > 0)
       => LET n == size - 1
              shrinks == capacity > ShrinkFloor /\ n <= capacity \div ShrinkDivisor
              half == capacity \div 2
              down == IF n = 0 THEN Elements
                      ELSE HeapifyDown(Put(Elements, 0, At(Elements, n)), n, 0)
          IN /\ size' = n
             /\ (capacity' # capacity) <=> shrinks
             /\ realloc' <=> shrinks
             /\ shrinks => capacity' = (IF half < n THEN n ELSE half)
             /\ Len(Elements') = capacity'
             /\ SameLive(Elements', down, n)]_vars

C25_Witness ==
  /\ op \in Removal /\ exc = NoExc
  /\ realloc
  /\ size = 2 /\ capacity = 4
  /\ Elements[1] = 1

\* C26: Insert changes the capacity exactly when capacity < size + 1 before
\* the call; the new capacity is then the least max(capacity, 1) * 2^k that
\* is >= size + 1, a new buffer of that many slots is allocated, and the
\* size elements that were live are carried over in order before the new
\* value is appended and sifted up.
C26_GrowRule ==
  [][op' = "Insert"
       => LET need == size + 1
              grows == capacity < need
              start == IF capacity < 1 THEN 1 ELSE capacity
              steps == {start * Pow2(k) : k \in 0..need}
              target == CHOOSE c \in steps :
                          c >= need /\ \A d \in steps : d >= need => c <= d
              appended == [k \in 1..need |->
                             IF k <= size THEN Elements[k] ELSE args'[1]]
          IN /\ ~ub'
             /\ size' = need
             /\ (capacity' # capacity) <=> grows
             /\ realloc' <=> grows
             /\ grows => capacity' = target
             /\ Len(Elements') = capacity'
             /\ SameLive(Elements', HeapifyUp(appended, size), need)]_vars

\* Four slots where three were: the buffer of a three-element container
\* doubles to six.
C26_Witness ==
  /\ op = "Insert" /\ realloc
  /\ size = 4 /\ capacity = 6
  /\ Elements[1] = 1

\* C27: whichever constructor built the queue, a RemoveTip or TipNRemove
\* that lowers the capacity never leaves it below 4.
C27_FloorOfFour ==
  [][(op' \in Removal /\ capacity' < capacity) => capacity' >= ShrinkFloor]_vars

\* -------------------------------------------------- claims checked on SpecAll
\* C17: of Tip, Insert, RemoveTip, TipNRemove, Change, Heapify and Sort, only
\* Insert takes an empty queue (size = 0) to a non-empty one, and it always
\* does; RemoveTip and TipNRemove on a non-empty queue leave it empty exactly
\* when size was 1; Change, Heapify, Sort and Tip never change size.
C17_EmptyNonEmpty ==
  [][/\ (size = 0 /\ size' > 0) => op' = "Insert"
     /\ (size = 0 /\ op' = "Insert") => size' > 0
     /\ (op' \in Removal /\ size > 0) => (size' = 0 <=> size = 1)
     /\ op' \in {"Tip", "ChangeValue", "ChangeIndex", "Heapify", "Sort"}
          => size' = size]_vars

C17_Witness ==
  /\ op = "RemoveTip" /\ exc = NoExc
  /\ size = 0
  /\ capacity >= 2

\* The abstract bag queue: what each call does to a multiset of values.
BagInsert(bag, v) == [bag EXCEPT ![v] = @ + 1]

BagRemove(bag, v) == [bag EXCEPT ![v] = @ - 1]

BagMax(bag) == CHOOSE v \in Values : bag[v] > 0 /\ \A w \in Values : bag[w] > 0 => w <= v

\* What the calls other than a successful removal do to the bag of live
\* elements and to size.
BagStepsButRemoval ==
  LET bag == BagOf(Elements, size)
      after == BagOf(Elements', size')
  IN /\ op' = "Insert" => size' = size + 1 /\ after = BagInsert(bag, args'[1])
     /\ (op' = "ChangeValue" /\ exc' = NoExc)
          => size' = size /\ after = Replaced(bag, args'[1], args'[2])
     /\ (op' = "ChangeIndex" /\ exc' = NoExc)
          => /\ size' = size
             /\ after = Replaced(bag, Elements[args'[1] + 1], args'[2])
     /\ (op' \in {"Tip", "Heapify", "Sort"} \/ exc' # NoExc)
          => size' = size /\ after = bag

\* C23 as stated: the live elements follow an abstract bag queue step by
\* step: Insert(v) adds one v, RemoveTip and TipNRemove remove one occurrence
\* of the maximum, a successful Change replaces one occurrence, Heapify and
\* Sort change nothing; size counts the bag.
C23_BagRefinement ==
  [][/\ BagStepsButRemoval
     /\ (op' \in Removal /\ size > 0)
          => /\ size' = size - 1
             /\ BagOf(Elements', size')
                  = BagRemove(BagOf(Elements, size),
                              BagMax(BagOf(Elements, size)))]_vars

\* C23 amended: as above, but RemoveTip and TipNRemove remove one occurrence
\* of element[0], which is the maximum when IsHeap() held before the call
\* and need not be after Sort().
C23_BagRefinementOfTip ==
  [][/\ BagStepsButRemoval
     /\ (op' \in Removal /\ size > 0)
          => /\ size' = size - 1
             /\ BagOf(Elements', size')
                  = BagRemove(BagOf(Elements, size), Elements[1])
             /\ IsHeap(Elements, size)
                  => Elements[1] = BagMax(BagOf(Elements, size))]_vars

\* A removal that returned less than what the queue still holds.
C23_Witness ==
  /\ op = "TipNRemove" /\ exc = NoExc
  /\ size >= 2
  /\ ret[1] < Elements[1]

\* C19: Change(index, v) with index < size and v equal to the element at
\* index exchanges nothing: every buffer slot, size and capacity are as
\* before, and so is IsHeap().
C19_ChangeEqualValue ==
  [][(op' = "ChangeIndex" /\ args'[1] < size /\ args'[2] = Elements[args'[1] + 1])
       => /\ exc' = NoExc
          /\ UNCHANGED <<Elements, size, capacity>>
          /\ IsHeap(Elements', size') <=> IsHeap(Elements, size)]_vars

\* The changed slot holds v, more than its parent and less than its child:
\* a sift in either direction would have moved it, so v was the old value.
C19_Witness ==
  /\ op = "ChangeIndex" /\ exc = NoExc
  /\ size >= 4
  /\ args[1] = 1
  /\ Elements[2] = args[2]
  /\ Elements[2] > Elements[1]
  /\ Elements[4] > Elements[2]

\* ------------------------------------------------- claims checked on SpecPair
\* C21: in every reachable state each queue's buffer has at least capacity
\* slots allocated, so that the write of Insert at index size, made when
\* EnsureCapacity(size + 1) allocates nothing, lands inside the buffer; this
\* for copies of a source whose capacity exceeds its size too.
C21_AllocatedCoversCapacity ==
  /\ ~ub
  /\ Len(Elements) >= capacity
  /\ Len(oElements) >= oCapacity

\* ------------------------------------------------ claims checked on SpecClear
\* C22: after Clear() on a queue in any state size = 0, and an Insert(v)
\* made next succeeds and leaves size = 1 with v at the tip.
C22_InsertAfterClear ==
  [][/\ op' = "Clear" => size' = 0
     /\ (op = "Clear" /\ op' = "Insert")
          => ~ub' /\ size' = 1 /\ Elements'[1] = args'[1]]_vars

\* ------------------------------------------------- claims checked on SpecSort
SuffixSorted(E, sz, i) == \A k \in i..(sz - 2) : At(E, k) <= At(E, k + 1)

PrefixBelowSuffix(E, sz, i) ==
  \A p \in 0..(i - 1), q \in i..(sz - 1) : At(E, p) <= At(E, q)

\* C28: after the iteration of Sort's loop for index i the suffix
\* element[i..size) is non-decreasing, every element of the prefix
\* element[0..i) is <= every element of the suffix, and the prefix is a
\* max-heap.
C28_SortLoopInvariant ==
  [][(sortI > 0 /\ sortI' = sortI - 1)
       => /\ SuffixSorted(Elements', size, sortI)
          /\ PrefixBelowSuffix(Elements', size, sortI)
          /\ IsHeap(Elements', sortI)]_vars

\* Two iterations done on five elements: a prefix of three with a root above
\* its child, a suffix of two in strict order.
C28_Witness ==
  /\ op = "Sort" /\ size = 5 /\ sortI = 2
  /\ Elements[1] > Elements[2]
  /\ Elements[4] < Elements[5]

InWindow(index, windowSize) == index < windowSize

EqualChildrenAbove(E, windowSize, index) ==
  /\ InWindow(GetRightChild(index), windowSize)
  /\ At(E, GetLeftChild(index)) = At(E, GetRightChild(index))
  /\ At(E, GetLeftChild(index)) > At(E, index)

NoChildAbove(E, windowSize, index) ==
  /\ InWindow(GetLeftChild(index), windowSize)
       => At(E, GetLeftChild(index)) <= At(E, index)
  /\ InWindow(GetRightChild(index), windowSize)
       => At(E, GetRightChild(index)) <= At(E, index)

\* C29: in HeapifyDown, from any index of any buffer, and in the sift-down
\* of each iteration of Sort's loop, a node whose two children are both in
\* the window, equal, and greater than the node is exchanged with its left
\* child and the descent goes on from there; a node with no in-window child
\* greater than itself is not exchanged and the buffer is left as it is.
C29_LeftOnTies ==
  /\ [](\A index \in LiveIndex :
         /\ EqualChildrenAbove(Elements, size, index)
              => HeapifyDown(Elements, size, index)
                   = HeapifyDown(Swap(Elements, index, GetLeftChild(index)),
                                 size, GetLeftChild(index))
         /\ NoChildAbove(Elements, size, index)
              => HeapifyDown(Elements, size, index) = Elements)
  /\ [][(sortI > 0 /\ sortI' = sortI - 1)
          => LET swapped == Swap(Elements, 0, sortI)
             IN /\ EqualChildrenAbove(swapped, sortI, 0)
                     => Elements' = SortSiftDown(Swap(swapped, 0, 1), sortI, 1)
                /\ NoChildAbove(swapped, sortI, 0) => Elements' = swapped]_vars

\* The iteration for index 3 on the heap <<2, 1, 1, 0>>: 0 comes to the root
\* over two equal children and goes down to the left.
C29_Witness ==
  /\ op = "Sort" /\ size = 4 /\ sortI = 2
  /\ Elements = <<1, 0, 1, 2>>

====
